---------------------------- MODULE Spec2Model ----------------------------
(***************************************************************************)
(* Fixed-point (Qm.n) base converter: the exact engine of src/src/App.jsx  *)
(* (parseInputToScaled, the bit codec of the canvas click handler, the     *)
(* formatters) and the App component's state around it.                    *)
(*                                                                         *)
(* JavaScript BigInt values are unbounded, and the program works with      *)
(* numbers near 2^60 * 10^18.  A BigInt is modelled exactly: its magnitude *)
(* is a sequence of limbs in base LimbBase, least significant limb first,  *)
(* with no high zero limb (zero is the empty sequence), and its sign is a  *)
(* flag.  Text is a sequence of one-character strings.                     *)
(*                                                                         *)
(* The arithmetic is written limb-parallel (carries by look-ahead) and the *)
(* loops of the source over the characters of a text as one condition over *)
(* its positions, so that an evaluation never nests deeper than a few      *)
(* operators per limb.  A function of the source that names an             *)
(* intermediate result and uses it several times is a chain of operators,  *)
(* each taking the intermediate results so far as parameters.              *)
(***************************************************************************)
EXTENDS Integers, Sequences, FiniteSets, TLC

Max2(x, y) == IF x >= y THEN x ELSE y
Min2(x, y) == IF x <= y THEN x ELSE y

\* the sequence f with each of its elements evaluated
Tuple(f) == f \o <<>>

\* f[lo] + ... + f[hi], by halves
RECURSIVE SumOver(_, _, _)
SumOver(f, lo, hi) ==
  IF lo > hi THEN 0
  ELSE IF lo = hi THEN f[lo]
  ELSE SumOver(f, lo, (lo + hi) \div 2) + SumOver(f, (lo + hi) \div 2 + 1, hi)

(***************************************************************************)
(* BigInt magnitudes                                                       *)
(***************************************************************************)
LimbBits == 10
LimbBase == 2 ^ LimbBits

\* limb i of a, zero beyond its ends
LimbAt(a, i) == IF i >= 1 /\ i <= Len(a) THEN a[i] ELSE 0

\* the position of the highest nonzero limb (0 when there is none)
BNTop(a) ==
  CHOOSE k \in 0..Len(a) :
    (k = 0 \/ a[k] # 0) /\ \A j \in (k + 1)..Len(a) : a[j] = 0

BNNorm(a) == SubSeq(a, 1, BNTop(a))

BNZero == <<>>
BNOne == <<1>>

\* a machine integer 0 <= k < 2^31 as a magnitude
BNFromInt(k) ==
  BNNorm(<<k % LimbBase, (k \div LimbBase) % LimbBase,
           (k \div (LimbBase * LimbBase)) % LimbBase,
           k \div (LimbBase * LimbBase * LimbBase)>>)

\* the highest position at which a and b, of equal length and different, differ
BNTopDiff(a, b) ==
  CHOOSE i \in 1..Len(a) : a[i] # b[i] /\ \A j \in (i + 1)..Len(a) : a[j] = b[j]

BNCmpAt(a, b, i) == IF a[i] < b[i] THEN -1 ELSE 1

BNCmp(a, b) ==
  IF Len(a) < Len(b) THEN -1
  ELSE IF Len(a) > Len(b) THEN 1
  ELSE IF a = b THEN 0
  ELSE BNCmpAt(a, b, BNTopDiff(a, b))

BNLt(a, b) == BNCmp(a, b) < 0
BNLe(a, b) == BNCmp(a, b) <= 0

\* x holds entries 0..2*LimbBase-2, entry i weighing LimbBase^(i-1): a carry
\* enters position i when a lower entry overflows and every entry in between
\* passes the carry on
CarryInto(x, i) ==
  \E j \in 1..(i - 1) :
    x[j] >= LimbBase /\ \A k \in (j + 1)..(i - 1) : x[k] = LimbBase - 1

Carried(x) ==
  BNNorm(Tuple([i \in 1..(Len(x) + 1) |->
                  (LimbAt(x, i) + (IF CarryInto(x, i) THEN 1 ELSE 0)) % LimbBase]))

\* x holds entries below 2^31: each entry keeps its low limb and hands the
\* rest to the next position
Spread(x) ==
  Tuple([i \in 1..(Len(x) + 1) |->
           (LimbAt(x, i) % LimbBase) + (LimbAt(x, i - 1) \div LimbBase)])

\* the magnitude of entries below 2^31 / of entries up to LimbBase^2
BNOfEntries(x) == Carried(Spread(Spread(Spread(x))))
BNOfProducts(x) == Carried(Spread(x))

BNAdd(a, b) ==
  IF a = <<>> THEN b
  ELSE IF b = <<>> THEN a
  ELSE Carried(Tuple([i \in 1..Max2(Len(a), Len(b)) |-> LimbAt(a, i) + LimbAt(b, i)]))

\* a borrow enters position i of a - b when a lower limb of a is the smaller
\* and the limbs in between are equal
BorrowInto(a, b, i) ==
  \E j \in 1..(i - 1) :
    a[j] < LimbAt(b, j) /\ \A k \in (j + 1)..(i - 1) : a[k] = LimbAt(b, k)

\* a - b for a >= b
BNSub(a, b) ==
  IF b = <<>> THEN a
  ELSE BNNorm(Tuple([i \in 1..Len(a) |->
                       (a[i] - LimbAt(b, i) - (IF BorrowInto(a, b, i) THEN 1 ELSE 0))
                         % LimbBase]))

\* a * k for 0 <= k <= LimbBase
BNMulLimb(a, k) ==
  IF a = <<>> \/ k = 0 THEN <<>>
  ELSE BNOfProducts(Tuple([i \in 1..Len(a) |-> a[i] * k]))

\* a * k for 0 <= k < 2^21
BNMulSmall(a, k) ==
  IF a = <<>> \/ k = 0 THEN <<>>
  ELSE BNOfEntries(Tuple([i \in 1..Len(a) |-> a[i] * k]))

\* the sum of the limb products of weight LimbBase^(i-1)
Column(a, b, i) == SumOver([j \in 1..Len(a) |-> a[j] * LimbAt(b, i + 1 - j)], 1, Len(a))

BNMul(a, b) ==
  IF a = <<>> \/ b = <<>> THEN <<>>
  ELSE BNOfEntries(Tuple([i \in 1..(Len(a) + Len(b) - 1) |-> Column(a, b, i)]))

\* a << k: whole limbs, then bits within the limb
BNShlAt(a, q, s) ==
  BNNorm(Tuple([i \in 1..(Len(a) + q + 1) |->
                  ((LimbAt(a, i - q) * (2 ^ s)) % LimbBase)
                    + (LimbAt(a, i - q - 1) \div (2 ^ (LimbBits - s)))]))

BNShl(a, k) ==
  IF a = <<>> THEN <<>> ELSE BNShlAt(a, k \div LimbBits, k % LimbBits)

\* a >> k
BNShrAt(a, q, s) ==
  BNNorm(Tuple([i \in 1..(Len(a) - q) |->
                  (LimbAt(a, i + q) \div (2 ^ s))
                    + ((LimbAt(a, i + q + 1) % (2 ^ s)) * (2 ^ (LimbBits - s)))]))

BNShr(a, k) ==
  IF Len(a) <= k \div LimbBits THEN <<>>
  ELSE BNShrAt(a, k \div LimbBits, k % LimbBits)

BNPow2(k) == BNShl(BNOne, k)

\* bit t of a limb, bit j of a magnitude (0: the lowest)
LimbBit(x, t) == (x \div (2 ^ t)) % 2
BitOf(a, j) == LimbBit(LimbAt(a, (j \div LimbBits) + 1), j % LimbBits)

AndLimb(x, y) ==
  SumOver([t \in 1..LimbBits |->
             IF LimbBit(x, t - 1) = 1 /\ LimbBit(y, t - 1) = 1 THEN 2 ^ (t - 1) ELSE 0],
          1, LimbBits)

XorLimb(x, y) ==
  SumOver([t \in 1..LimbBits |->
             IF LimbBit(x, t - 1) # LimbBit(y, t - 1) THEN 2 ^ (t - 1) ELSE 0],
          1, LimbBits)

\* a & b and a ^ b on non-negative BigInts
BNAnd(a, b) ==
  IF a = <<>> \/ b = <<>> THEN <<>>
  ELSE BNNorm(Tuple([i \in 1..Min2(Len(a), Len(b)) |-> AndLimb(a[i], b[i])]))

BNXor(a, b) ==
  IF a = <<>> THEN b
  ELSE IF b = <<>> THEN a
  ELSE BNNorm(Tuple([i \in 1..Max2(Len(a), Len(b)) |->
                       XorLimb(LimbAt(a, i), LimbAt(b, i))]))

\* the number of binary digits of a limb x > 0, of a magnitude (0 for zero)
LimbBitLen(x) == CHOOSE k \in 1..LimbBits : x < 2 ^ k /\ x >= 2 ^ (k - 1)
BNBitLen(a) ==
  IF a = <<>> THEN 0 ELSE LimbBits * (Len(a) - 1) + LimbBitLen(a[Len(a)])

(***************************************************************************)
(* Division.  Long division takes the limbs of a from the most significant *)
(* down; st holds the quotient limbs found so far and the running          *)
(* remainder.  A quotient limb d of r by b (r < b * LimbBase) is found     *)
(* among the few candidates that the leading limbs of r and b leave.       *)
(***************************************************************************)
Top3(r, L) == (LimbAt(r, L + 1) * LimbBase + LimbAt(r, L)) * LimbBase + LimbAt(r, L - 1)
Top2(b, L) == LimbAt(b, L) * LimbBase + LimbAt(b, L - 1)

BNQuotAmong(r, b, lo, hi) ==
  CHOOSE d \in lo..hi :
    BNLe(BNMulLimb(b, d), r) /\ (d = hi \/ BNLt(r, BNMulLimb(b, d + 1)))

BNQuotDigit(r, b) ==
  IF BNLt(r, b) THEN 0
  ELSE BNQuotAmong(r, b, Top3(r, Len(b)) \div (Top2(b, Len(b)) + 1),
                   Min2(LimbBase - 1, (Top3(r, Len(b)) + 1) \div Top2(b, Len(b))))

BNDivTake(b, q, r1, d) == [q |-> <<d>> \o q, r |-> BNSub(r1, BNMulLimb(b, d))]

BNDivLimb(b, q, r1) == BNDivTake(b, q, r1, BNQuotDigit(r1, b))

RECURSIVE BNDivStep(_, _, _)
BNDivStep(a, b, st) ==
  IF Len(st.q) = Len(a) THEN [quot |-> BNNorm(st.q), rem |-> st.r]
  ELSE BNDivStep(a, b, BNDivLimb(b, st.q, BNNorm(<<a[Len(a) - Len(st.q)]>> \o st.r)))

\* a / b and a % b for b > 0
BNDivMod(a, b) == BNDivStep(a, b, [q |-> <<>>, r |-> <<>>])
BNDiv(a, b) == BNDivMod(a, b).quot
BNMod(a, b) == BNDivMod(a, b).rem

\* short division: a / k and a % k for 0 < k < 2^20; st.r is a machine integer
BNDivSmallTake(k, q, t) == [q |-> <<t \div k>> \o q, r |-> t % k]

RECURSIVE BNDivSmallStep(_, _, _)
BNDivSmallStep(a, k, st) ==
  IF Len(st.q) = Len(a) THEN [quot |-> BNNorm(st.q), rem |-> st.r]
  ELSE BNDivSmallStep(a, k, BNDivSmallTake(k, st.q,
                                           st.r * LimbBase + a[Len(a) - Len(st.q)]))

BNDivModSmall(a, k) == BNDivSmallStep(a, k, [q |-> <<>>, r |-> 0])

\* b ** k by squaring
BNSquare(a) == BNMul(a, a)

BNPowStep(h, b, k) ==
  IF h = <<>> THEN <<>>
  ELSE IF k % 2 = 1 THEN BNMul(BNSquare(h), b)
  ELSE BNSquare(h)

RECURSIVE BNPow(_, _)
BNPow(b, k) == IF k = 0 THEN BNOne ELSE BNPowStep(BNPow(b, k \div 2), b, k)

(***************************************************************************)
(* Digits of a magnitude.  BNDigits(a, radix) is BigInt.toString(radix) as *)
(* a sequence of digit values, most significant first (<<0>> for zero).    *)
(* Binary and hexadecimal digits are groups of bits.  Decimal digits are   *)
(* taken ChunkLen at a time: a chunk is one short division by              *)
(* radix^ChunkLen.                                                         *)
(***************************************************************************)
DigitBits(radix) == CASE radix = 2 -> 1 [] radix = 16 -> 4

\* the digit of g bits whose lowest bit is bit j of a
BitGroup(a, j, g) == SumOver([t \in 1..g |-> BitOf(a, j + t - 1) * (2 ^ (t - 1))], 1, g)

BitDigits(a, g, count) == Tuple([i \in 1..count |-> BitGroup(a, g * (count - i), g)])

ChunkLen(radix) == CASE radix = 2 -> 10 [] radix = 10 -> 6 [] radix = 16 -> 5
ChunkBase(radix) == radix ^ ChunkLen(radix)

\* the chunks of st.a, most significant first, in front of st.acc
BNChunksTake(qr, acc) == [a |-> qr.quot, acc |-> <<qr.rem>> \o acc]

RECURSIVE BNChunksAcc(_, _)
BNChunksAcc(st, cb) ==
  IF st.a = <<>> THEN st.acc
  ELSE BNChunksAcc(BNChunksTake(BNDivModSmall(st.a, cb), st.acc), cb)

\* the number of digits of a chunk value c >= 0 (1 for zero)
ChunkDigitCount(c, radix) ==
  CHOOSE k \in 1..ChunkLen(radix) :
    /\ c < radix ^ k
    /\ (k = 1 \/ c >= radix ^ (k - 1))

\* the digits of the chunks cs (of cl digits each), the top chunk giving top digits
ChunkDigits(cs, radix, cl, top) ==
  Tuple([i \in 1..(top + (Len(cs) - 1) * cl) |->
           (cs[((i + (cl - top) - 1) \div cl) + 1]
              \div (radix ^ (cl - 1 - ((i + (cl - top) - 1) % cl)))) % radix])

BNDigitsOfChunks(cs, radix) ==
  ChunkDigits(cs, radix, ChunkLen(radix), ChunkDigitCount(cs[1], radix))

BNDigits(a, radix) ==
  IF a = <<>> THEN <<0>>
  ELSE IF radix = 10
  THEN BNDigitsOfChunks(BNChunksAcc([a |-> a, acc |-> <<>>], ChunkBase(radix)), radix)
  ELSE BitDigits(a, DigitBits(radix),
                 (BNBitLen(a) + DigitBits(radix) - 1) \div DigitBits(radix))

\* the value of the `count` digits of ds from position `from`, a machine integer
ChunkValue(ds, radix, from, count) ==
  SumOver([t \in 1..count |-> ds[from + t - 1] * (radix ^ (count - t))], 1, count)

\* the digits of ds from st.pos on, appended to the value st.acc: the first
\* chunk is the short one
BNFromChunksTake(ds, radix, pos, count, acc) ==
  [pos |-> pos + count,
   acc |-> BNAdd(BNMulSmall(acc, radix ^ count),
                 BNFromInt(ChunkValue(ds, radix, pos, count)))]

RECURSIVE BNFromChunksAcc(_, _, _)
BNFromChunksAcc(ds, radix, st) ==
  IF st.pos > Len(ds) THEN st.acc
  ELSE BNFromChunksAcc(ds, radix,
         BNFromChunksTake(ds, radix, st.pos,
                          IF (Len(ds) - st.pos + 1) % ChunkLen(radix) = 0
                          THEN ChunkLen(radix)
                          ELSE (Len(ds) - st.pos + 1) % ChunkLen(radix),
                          st.acc))

\* the magnitude whose digits in `radix`, most significant first, are ds
BNFromDigits(ds, radix) == BNFromChunksAcc(ds, radix, [pos |-> 1, acc |-> <<>>])

(***************************************************************************)
(* Signed BigInt: a sign flag and a magnitude; zero is never negative.     *)
(***************************************************************************)
Z(neg, mag) == [neg |-> neg /\ mag # <<>>, mag |-> mag]
ZNat(mag) == Z(FALSE, mag)
ZFromInt(k) == IF k < 0 THEN Z(TRUE, BNFromInt(-k)) ELSE Z(FALSE, BNFromInt(k))
ZNeg(z) == Z(~z.neg, z.mag)

\* the magnitude of the difference, the sign being that of the larger magnitude
ZAddMixed(x, y) ==
  IF BNLe(y.mag, x.mag) THEN Z(x.neg, BNSub(x.mag, y.mag))
  ELSE Z(y.neg, BNSub(y.mag, x.mag))

ZAdd(x, y) ==
  IF x.neg = y.neg THEN Z(x.neg, BNAdd(x.mag, y.mag)) ELSE ZAddMixed(x, y)

ZSub(x, y) == ZAdd(x, ZNeg(y))

ZLt(x, y) ==
  IF x.neg /\ ~y.neg THEN TRUE
  ELSE IF ~x.neg /\ y.neg THEN FALSE
  ELSE IF x.neg THEN BNLt(y.mag, x.mag)
  ELSE BNLt(x.mag, y.mag)

ZLe(x, y) == ~ZLt(y, x)

\* z & mask for a mask >= 0: the two's-complement bits of a negative z are
\* those of z + 2^w for any w that covers the mask
ZAndNat(z, mask) ==
  BNAnd(IF ~z.neg THEN z.mag
        ELSE BNSub(BNPow2(LimbBits * (Max2(Len(mask), Len(z.mag)) + 1)), z.mag),
        mask)

(***************************************************************************)
(* Text: a JavaScript string is a sequence of one-character strings.       *)
(***************************************************************************)
LowerDigits == <<"0", "1", "2", "3", "4", "5", "6", "7", "8", "9",
                 "a", "b", "c", "d", "e", "f">>
UpperDigits == <<"0", "1", "2", "3", "4", "5", "6", "7", "8", "9",
                 "A", "B", "C", "D", "E", "F">>

\* the value of c as a digit (letters in either case), -1 when it is none
DigitValue(c) ==
  IF \E d \in 1..16 : LowerDigits[d] = c
  THEN (CHOOSE d \in 1..16 : LowerDigits[d] = c) - 1
  ELSE IF \E d \in 1..16 : UpperDigits[d] = c
  THEN (CHOOSE d \in 1..16 : UpperDigits[d] = c) - 1
  ELSE -1

\* parseInt(c, base) of a one-character string: NaN unless c is a digit of the base
ParseIntDigit(d, base) ==
  IF d >= 0 /\ d < base THEN [nan |-> FALSE, v |-> d] ELSE [nan |-> TRUE, v |-> 0]

ParseIntChar(c, base) == ParseIntDigit(DigitValue(c), base)

\* c.charCodeAt(0) for the characters the model types
CharCode(c) ==
  CASE c = " " -> 32
    [] c = "+" -> 43
    [] c = "-" -> 45
    [] c = "." -> 46
    [] c = "/" -> 47
    [] c = ":" -> 58
    [] c = "_" -> 95
    [] c = "g" -> 103
    [] c = "x" -> 120
    [] \E d \in 1..10 : LowerDigits[d] = c -> 47 + (CHOOSE d \in 1..10 : LowerDigits[d] = c)
    [] \E d \in 11..16 : LowerDigits[d] = c -> 86 + (CHOOSE d \in 11..16 : LowerDigits[d] = c)
    [] \E d \in 11..16 : UpperDigits[d] = c -> 54 + (CHOOSE d \in 11..16 : UpperDigits[d] = c)

IsSpace(c) == c = " "

\* String.prototype.trim: from the first to the last character that is no space
TrimFrom(s) ==
  CHOOSE k \in 1..(Len(s) + 1) :
    (k = Len(s) + 1 \/ ~IsSpace(s[k])) /\ \A j \in 1..(k - 1) : IsSpace(s[j])

TrimTo(s) ==
  CHOOSE k \in 0..Len(s) :
    (k = 0 \/ ~IsSpace(s[k])) /\ \A j \in (k + 1)..Len(s) : IsSpace(s[j])

Trim(s) == SubSeq(s, TrimFrom(s), TrimTo(s))

\* rmall(s, needle) for a one-character needle
rmall(s, needle) == SelectSeq(s, LAMBDA c : c # needle)

\* s.slice(from) and s.slice(from, to), positions counted from 0
Slice(s, from) == SubSeq(s, from + 1, Len(s))
Slice2(s, from, to) == SubSeq(s, from + 1, IF to <= Len(s) THEN to ELSE Len(s))

\* s.split(sep) for a one-character separator: the pieces between the
\* separators; piece k starts after separator k - 1 and ends before separator k
SepCount(s, sep, upto) == Cardinality({j \in 1..upto : s[j] = sep})

\* the position of separator k of s (0 for k = 0, Len(s) + 1 past the last)
SepPos(s, sep, k) ==
  IF k = 0 THEN 0
  ELSE IF k > SepCount(s, sep, Len(s)) THEN Len(s) + 1
  ELSE CHOOSE i \in 1..Len(s) : s[i] = sep /\ SepCount(s, sep, i) = k

Split(s, sep) ==
  Tuple([k \in 1..(SepCount(s, sep, Len(s)) + 1) |->
           SubSeq(s, SepPos(s, sep, k - 1) + 1, SepPos(s, sep, k) - 1)])

\* s.padStart(width, pad) for a one-character pad
PadStart(s, width, pad) ==
  IF Len(s) >= width THEN s
  ELSE [i \in 1..(width - Len(s)) |-> pad] \o s

\* BigInt.toString(radix): lowercase digits
DigitChars(ds) == Tuple([i \in 1..Len(ds) |-> LowerDigits[ds[i] + 1]])

ToStringRadix(a, radix) == DigitChars(BNDigits(a, radix))

\* String.prototype.toUpperCase on digit text
UpperChar(c, d) == IF d >= 10 THEN UpperDigits[d + 1] ELSE c

ToUpperCase(s) == Tuple([i \in 1..Len(s) |-> UpperChar(s[i], DigitValue(s[i]))])

(***************************************************************************)
(* The engine                                                              *)
(***************************************************************************)
absBig(a) == IF ZLt(a, ZNat(BNZero)) THEN ZNeg(a) ELSE a

\* (1n << BigInt(width)) - 1n
LowMask(width) == BNSub(BNShl(BNOne, width), BNOne)

\* bigintToBinary without its padStart
bigintToBinaryNoPad(n, width) == ToStringRadix(ZAndNat(n, LowMask(width)), 2)

\* bigintToBinary(n, width): (n & mask).toString(2).padStart(width, "0")
bigintToBinary(n, width) ==
  PadStart(ToStringRadix(ZAndNat(n, LowMask(width)), 2), width, "0")

\* the loop of parseFractionalInBase and of the base 2 / base 16 integer
\* part: character i is refused
BadDigit(v, base) == v.nan \/ v.v < 0 \/ v.v >= base

\* the value the loop num = num * base + v builds over the characters of str
DigitsValue(str, base) ==
  BNFromDigits(Tuple([i \in 1..Len(str) |-> ParseIntChar(str[i], base).v]), base)

\* parseFractionalInBase: null, or the fraction num / base^k of the k digits
parseFractionalInBase(strFrac, base) ==
  IF strFrac = <<>> THEN [null |-> FALSE, num |-> BNZero, den |-> BNOne]
  ELSE IF \E i \in 1..Len(strFrac) : BadDigit(ParseIntChar(strFrac[i], base), base)
  THEN [null |-> TRUE]
  ELSE [null |-> FALSE, num |-> DigitsValue(strFrac, base),
        den |-> BNPow(BNFromInt(base), Len(strFrac))]

\* the integer-part loop of parseSignedDecimal stops at position i (counted
\* from 0): the first "." of t, or its end
DecIntStop(t) ==
  CHOOSE i \in 0..Len(t) :
    (i = Len(t) \/ t[i + 1] = ".") /\ \A j \in 1..i : t[j] # "."

DecCode(t, j) == CharCode(t[j]) - 48

\* the value the loop intPart = intPart * 10 + code builds over t[1..i]
DecCodesValue(t, i) == BNFromDigits(Tuple([j \in 1..i |-> DecCode(t, j)]), 10)

\* the integer-part loop of parseSignedDecimal without the upper check on the
\* character code
DecIntFromNoUpper(t, i) ==
  IF \E j \in 1..i : DecCode(t, j) < 0 THEN [null |-> TRUE]
  ELSE [null |-> FALSE, i |-> i, intPart |-> DecCodesValue(t, i)]

\* the integer-part loop of parseSignedDecimal, which stops at position i
DecIntFrom(t, i) ==
  IF \E j \in 1..i : DecCode(t, j) < 0 \/ DecCode(t, j) > 9 THEN [null |-> TRUE]
  ELSE [null |-> FALSE, i |-> i, intPart |-> DecCodesValue(t, i)]

\* parseSignedDecimal: the stripped text s, the sign and the text t after
\* it, the integer part ip, the fraction f
DecimalWithFrac(neg, intPart, f) ==
  IF f.null THEN [null |-> TRUE]
  ELSE [null |-> FALSE, neg |-> neg, intPart |-> intPart, num |-> f.num, den |-> f.den]

DecimalAfterInt(neg, t, ip) ==
  IF ip.null THEN [null |-> TRUE]
  ELSE IF ip.i < Len(t) /\ t[ip.i + 1] = "."
  THEN DecimalWithFrac(neg, ip.intPart, parseFractionalInBase(Slice(t, ip.i + 1), 10))
  ELSE [null |-> FALSE, neg |-> neg, intPart |-> ip.intPart,
        num |-> BNZero, den |-> BNOne]

DecimalAfterSign(neg, t) == DecimalAfterInt(neg, t, DecIntFrom(t, DecIntStop(t)))

DecimalOfStripped(s) ==
  IF s = <<>> THEN [null |-> TRUE]
  ELSE DecimalAfterSign(s[1] = "-",
                        IF s[1] = "+" \/ s[1] = "-" THEN Slice(s, 1) ELSE s)

parseSignedDecimal(str) == DecimalOfStripped(rmall(Trim(str), "_"))

\* the integer-part loop of the base 2 / base 16 branch
IntDigitsFrom(ip, base) ==
  IF \E i \in 1..Len(ip) : BadDigit(ParseIntChar(ip[i], base), base) THEN [bad |-> TRUE]
  ELSE [bad |-> FALSE, intVal |-> DigitsValue(ip, base)]

\* parseInputToScaled, its text stage: an error, or the sign and the exact
\* magnitude rationalNum / rationalDen.  Base 10 goes through
\* parseSignedDecimal (p); base 2 and base 16 strip the text (s0), take the
\* sign, split at the points (parts) and read the integer digits (iv) and
\* the fractional digits (frac).
RationalOfDecimal(p) ==
  IF p.null THEN [err |-> "Invalid decimal input."]
  ELSE [negative |-> p.neg,
        rationalNum |-> BNAdd(BNMul(p.intPart, p.den), p.num),
        rationalDen |-> p.den]

RationalWithFrac(negative, intVal, frac) ==
  IF frac.null THEN [err |-> "Invalid fractional digits."]
  ELSE [negative |-> negative,
        rationalNum |-> BNAdd(BNMul(intVal, frac.den), frac.num),
        rationalDen |-> frac.den]

RationalAfterInt(negative, base, fp, iv) ==
  IF iv.bad THEN [err |-> "Invalid digit for base."]
  ELSE RationalWithFrac(negative, iv.intVal, parseFractionalInBase(fp, base))

RationalOfParts(negative, base, parts) ==
  IF Len(parts) > 2 THEN [err |-> "Too many decimal points."]
  ELSE RationalAfterInt(negative, base,
                        IF Len(parts) >= 2 THEN parts[2] ELSE <<>>,
                        IntDigitsFrom(parts[1], base))

RationalOfStripped(s0, base) ==
  RationalOfParts(s0 # <<>> /\ s0[1] = "-", base,
                  Split(IF s0 # <<>> /\ (s0[1] = "-" \/ s0[1] = "+")
                        THEN Slice(s0, 1) ELSE s0, "."))

ParseRational(valueStr, base) ==
  IF base = 10 THEN RationalOfDecimal(parseSignedDecimal(valueStr))
  ELSE RationalOfStripped(rmall(Trim(valueStr), "_"), base)

\* the rounding stage with ties rounded down (rem * 2 > den)
RoundQuotHalfDown(negative, rationalDen, qr) ==
  Z(negative, IF BNLt(rationalDen, BNMulLimb(qr.rem, 2))
              THEN BNAdd(qr.quot, BNOne) ELSE qr.quot)

RoundScaledHalfDown(negative, rationalNum, rationalDen, fracBits) ==
  RoundQuotHalfDown(negative, rationalDen,
                    BNDivMod(BNMul(rationalNum, BNShl(BNOne, fracBits)), rationalDen))

\* parseInputToScaled, its rounding stage: with qr the quotient and the
\* remainder of num * 2^fracBits by den, the quotient plus one when
\* rem * 2 >= den, then the sign
RoundQuot(negative, rationalDen, qr) ==
  Z(negative, IF BNLe(rationalDen, BNMulLimb(qr.rem, 2))
              THEN BNAdd(qr.quot, BNOne) ELSE qr.quot)

RoundScaled(negative, rationalNum, rationalDen, fracBits) ==
  RoundQuot(negative, rationalDen,
            BNDivMod(BNMul(rationalNum, BNShl(BNOne, fracBits)), rationalDen))

TotalBits(signed, intBits, fracBits) == (IF signed THEN 1 ELSE 0) + intBits + fracBits

RangeMin(signed, N) == IF signed THEN ZNeg(ZNat(BNShl(BNOne, N - 1))) ELSE ZNat(BNZero)
RangeMax(signed, N) ==
  IF signed THEN ZNat(BNSub(BNShl(BNOne, N - 1), BNOne))
  ELSE ZNat(BNSub(BNShl(BNOne, N), BNOne))

\* the range clamp that always takes the upper bound on overflow
ClampToMax(scaled, min, max) ==
  [scaled |-> IF ZLt(scaled, min) \/ ZLt(max, scaled) THEN max ELSE scaled,
   overflow |-> ZLt(scaled, min) \/ ZLt(max, scaled)]

SaturateToMax(scaled, signed, N) ==
  ClampToMax(scaled, RangeMin(signed, N), RangeMax(signed, N))

\* parseInputToScaled, its range clamp
ClampToRange(scaled, min, max) ==
  [scaled |-> IF ZLt(scaled, min) \/ ZLt(max, scaled)
              THEN (IF ZLt(scaled, min) THEN min ELSE max)
              ELSE scaled,
   overflow |-> ZLt(scaled, min) \/ ZLt(max, scaled)]

Saturate(scaled, signed, N) ==
  ClampToRange(scaled, RangeMin(signed, N), RangeMax(signed, N))

HasErr(r) == "err" \in DOMAIN r

\* parseInputToScaled after its text stage p
ScaledOfRational(p, signed, N, fracBits) ==
  IF HasErr(p) THEN p
  ELSE Saturate(RoundScaled(p.negative, p.rationalNum, p.rationalDen, fracBits), signed, N)

\* parseInputToScaled with the check of the widths reduced to the signs of
\* intBits and fracBits
parseInputToScaledAnyTotal(valueStr, base, signed, intBits, fracBits) ==
  IF intBits < 0 \/ fracBits < 0
  THEN [err |-> "Invalid bit widths."]
  ELSE ScaledOfRational(ParseRational(valueStr, base), signed,
                        TotalBits(signed, intBits, fracBits), fracBits)

parseInputToScaled(valueStr, base, signed, intBits, fracBits) ==
  IF TotalBits(signed, intBits, fracBits) <= 0 \/ intBits < 0 \/ fracBits < 0
  THEN [err |-> "Invalid bit widths."]
  ELSE ScaledOfRational(ParseRational(valueStr, base), signed,
                        TotalBits(signed, intBits, fracBits), fracBits)

\* the two's-complement representative of scaled in N bits
Twos(scaled, N, signed) ==
  IF signed /\ ZLt(scaled, ZNat(BNZero))
  THEN ZNat(ZAndNat(ZAdd(scaled, ZNat(BNShl(BNOne, N))), LowMask(N)))
  ELSE scaled

\* the raw pattern of scaled: N characters "0"/"1", most significant first
BitPattern(scaled, N, signed) == bigintToBinary(Twos(scaled, N, signed), N)

\* the decode that never subtracts 2^N
FromTwosUnsigned(twosNew, N, signed) == ZNat(twosNew)

\* the click handler's decode: the scaled value of the N-bit number twosNew
FromTwos(twosNew, N, signed) ==
  IF signed /\ BNAnd(twosNew, BNShl(BNOne, N - 1)) # BNZero
  THEN ZSub(ZNat(twosNew), ZNat(BNShl(BNOne, N)))
  ELSE ZNat(twosNew)

\* the toggle that sets the bit (| in place of ^)
SetMasked(twos, bitMask, mask) ==
  BNAnd(BNAdd(BNXor(twos, bitMask), BNAnd(twos, bitMask)), mask)

ToggleBitSet(scaled, N, signed, idx) ==
  FromTwos(SetMasked(Twos(scaled, N, signed).mag, BNShl(BNOne, N - 1 - idx), LowMask(N)),
           N, signed)

\* the click handler's toggle of bit idx (0: most significant):
\* twosNew = (twos ^ bitMask) & mask, decoded
ToggleBit(scaled, N, signed, idx) ==
  FromTwos(BNAnd(BNXor(Twos(scaled, N, signed).mag, BNShl(BNOne, N - 1 - idx)),
                 LowMask(N)),
           N, signed)

\* scaledToDecimalString: the sign, abs, then intPart and frac, then the text
\* the text with a point after the integer part in every case
DecimalWithPoint(sign, intPart, frac, fracBits, precision) ==
  sign \o ToStringRadix(intPart, 10) \o <<".">>
    \o (IF precision <= 0 \/ fracBits = 0 THEN <<>> ELSE PadStart(<<>>, precision, "0"))

DecimalOfParts(sign, intPart, frac, fracBits, precision) ==
  IF precision <= 0 \/ fracBits = 0 THEN sign \o ToStringRadix(intPart, 10)
  ELSE LET tenPow == BNPow(BNFromInt(10), precision)
           fracDec == BNShr(BNAdd(BNMul(frac, tenPow), BNShl(BNOne, fracBits - 1)),
                            fracBits)
           fracStr == PadStart(ToStringRadix(fracDec, 10), precision, "0")
       IN  sign \o ToStringRadix(intPart, 10) \o <<".">> \o fracStr

DecimalOfAbs(sign, abs, fracBits, precision) ==
  DecimalOfParts(sign, BNShr(abs, fracBits), BNAnd(abs, LowMask(fracBits)),
                 fracBits, precision)

scaledToDecimalString(scaled, fracBits, precision) ==
  DecimalOfAbs(IF ZLt(scaled, ZNat(BNZero)) THEN <<"-">> ELSE <<>>,
               absBig(scaled).mag, fracBits, precision)

\* binaryWithPointFromScaled: the pattern bits, cut fracBits from its end
PointAt(bits, cut) ==
  (IF Slice2(bits, 0, cut) = <<>> THEN <<"0">> ELSE Slice2(bits, 0, cut))
    \o <<".">> \o Slice(bits, cut)

\* the cut counted from the left end of the pattern
PointFromLeft(bits, fracBits) ==
  IF fracBits <= 0 THEN bits ELSE PointAt(bits, Min2(Len(bits), fracBits))

PointInPattern(bits, fracBits) ==
  IF fracBits <= 0 THEN bits ELSE PointAt(bits, Max2(0, Len(bits) - fracBits))

binaryWithPointFromScaled(scaled, totalBits, fracBits, signed) ==
  PointInPattern(BitPattern(scaled, totalBits, signed), fracBits)

\* hexFromScaled without its toUpperCase
hexFromScaledLower(scaled, totalBits, signed) ==
  PadStart(ToStringRadix(Twos(scaled, totalBits, signed).mag, 16),
           (totalBits + 3) \div 4, "0")

hexFromScaled(scaled, totalBits, signed) ==
  PadStart(ToUpperCase(ToStringRadix(Twos(scaled, totalBits, signed).mag, 16)),
           (totalBits + 3) \div 4, "0")

(***************************************************************************)
(* The App component.  Its state is the configuration (m, n, signed,       *)
(* inputBase, precision) and the text field valueStr; everything shown is  *)
(* recomputed from these (useMemo).  The canvas geometry, the hover        *)
(* highlight and the 4-bit grouping switch are presentation: the model     *)
(* takes the index of the clicked bit box as the click's input.            *)
(*                                                                         *)
(* last records the latest click (its bit index and the text it was        *)
(* applied to) for the properties that speak about a click's effect.       *)
(* The runs explored are: any settings and typed texts in any order, then  *)
(* a click, then a newly typed text.  The boxes clicked are the MaxEdge    *)
(* leftmost and the MaxEdge rightmost ones.                                *)
(*                                                                         *)
(* cur is the scaled value held by the bit codec when it is exercised on   *)
(* its own (CodecSpec below); the App leaves it alone.                     *)
(***************************************************************************)
VARIABLES m, n, signed, inputBase, precision, valueStr, last, cur

vars == <<m, n, signed, inputBase, precision, valueStr, last, cur>>

\* bounds of the model
MaxInt == 0        \* setM is given the values -1..MaxInt
MaxFrac == 1       \* setN is given the values -1..MaxFrac, and one past the widest
MaxEdge == 2       \* the clicked boxes are within MaxEdge of either end
CodecInt == 2      \* CodecSpec: m in 0..CodecInt
CodecFrac == 2     \* CodecSpec: n in 0..CodecFrac, and the widest
ExhaustBits == 6   \* CodecSpec: every value and every bit of formats this narrow

\* constants of the program
WidthLimit == 60       \* m and n are clamped to 0..60
PrecisionLimit == 18   \* precision is clamped to 0..18
ClickPrecision == 12   \* a click writes at least 12 fractional digits
DefaultM == 3
DefaultN == 5
DefaultPrecision == 6

DefaultValueStr == <<"-", "3", ".", "1", "4", "1", "5", "9">>

\* the texts typed into the field
TypedInputs ==
  { DefaultValueStr,
    <<>>,
    <<" ", "_", " ">>,
    <<"0">>,
    <<"5">>,
    <<"0", ".", "7", "5">>,
    <<"-", "0", ".", "7", "5">>,
    <<"+", "1", "_", "0", ".", "0", "1">>,
    <<" ", "1", "0", "1", ".", "0", "1", " ">>,
    <<"9", "9", "9">>,
    <<"-", "9", "9", "9">>,
    <<"F", "F", ".", "a">>,
    <<"1", ".", "0", ".", "1">>,
    <<"1", "g">> }

InputBases == {2, 10, 16}

clamp(x, lo, hi) == IF x < lo THEN lo ELSE IF x > hi THEN hi ELSE x

totalBits == TotalBits(signed, m, n)

\* the useMemo results of the current state
Parsed == parseInputToScaled(valueStr, inputBase, signed, m, n)
err == HasErr(Parsed)

NoClick == [op |-> "none", idx |-> 0, prev |-> <<>>]
Clicked == last.op = "click"

\* the boxes the model clicks, of N
ClickIdx(N) == {i \in 0..(N - 1) : i < MaxEdge \/ i >= N - MaxEdge}

Init ==
  /\ m = DefaultM
  /\ n = DefaultN
  /\ signed = TRUE
  /\ inputBase = 10
  /\ precision = DefaultPrecision
  /\ valueStr = DefaultValueStr
  /\ last = NoClick
  /\ cur = ZNat(BNZero)

SetM(v) ==
  /\ ~Clicked
  /\ m' = clamp(v, 0, WidthLimit)
  /\ UNCHANGED <<n, signed, inputBase, precision, valueStr, last, cur>>

SetN(v) ==
  /\ ~Clicked
  /\ n' = clamp(v, 0, WidthLimit)
  /\ UNCHANGED <<m, signed, inputBase, precision, valueStr, last, cur>>

SetSigned(b) ==
  /\ ~Clicked
  /\ signed' = b
  /\ UNCHANGED <<m, n, inputBase, precision, valueStr, last, cur>>

SetInputBase(b) ==
  /\ ~Clicked
  /\ inputBase' = b
  /\ UNCHANGED <<m, n, signed, precision, valueStr, last, cur>>

SetPrecision(v) ==
  /\ ~Clicked
  /\ precision' = clamp(v, 0, PrecisionLimit)
  /\ UNCHANGED <<m, n, signed, inputBase, valueStr, last, cur>>

SetValueStr(s) ==
  /\ valueStr' = s
  /\ last' = NoClick
  /\ UNCHANGED <<m, n, signed, inputBase, precision, cur>>

\* handleCanvasEvent(e, true) on the box of bit idx
ClickBit(idx) ==
  /\ ~Clicked
  /\ idx >= 0 /\ idx < totalBits
  /\ \E p \in {Parsed} :
       /\ ~HasErr(p)
       /\ \E scaledNew \in {ToggleBit(p.scaled, totalBits, signed, idx)} :
            valueStr' = scaledToDecimalString(scaledNew, n,
                                              Max2(ClickPrecision, precision))
  /\ last' = [op |-> "click", idx |-> idx, prev |-> valueStr]
  /\ UNCHANGED <<m, n, signed, inputBase, precision, cur>>

Next ==
  \/ \E v \in -1..MaxInt : SetM(v)
  \/ \E v \in (-1..MaxFrac) \cup {WidthLimit + 1} : SetN(v)
  \/ \E b \in BOOLEAN : SetSigned(b)
  \/ \E b \in InputBases : SetInputBase(b)
  \/ \E v \in {DefaultPrecision, PrecisionLimit + 1} : SetPrecision(v)
  \/ \E s \in TypedInputs : SetValueStr(s)
  \/ \E idx \in ClickIdx(totalBits) : ClickBit(idx)

Spec == Init /\ [][Next]_vars

(***************************************************************************)
(* The bit codec on its own: a format, a scaled value of its range, and    *)
(* the click handler's toggle applied to the value directly (no text in    *)
(* between).  Narrow formats start from every value of the range and       *)
(* toggle every bit; wide ones start from the ends of the range and the    *)
(* values around zero and toggle the boxes near either end.                *)
(***************************************************************************)
\* the integers lo..hi as BigInts
ZRange(lo, hi) == {ZFromInt(k) : k \in lo..hi}

CodecValues(sg, N) ==
  IF N <= ExhaustBits
  THEN (IF sg THEN ZRange(-(2 ^ (N - 1)), 2 ^ (N - 1) - 1) ELSE ZRange(0, 2 ^ N - 1))
  ELSE {RangeMin(sg, N), RangeMax(sg, N), ZFromInt(0), ZFromInt(1)}
       \cup (IF sg THEN {ZFromInt(-1)} ELSE {})

CodecIdx(N) == IF N <= ExhaustBits THEN 0..(N - 1) ELSE ClickIdx(N)

CodecInit ==
  /\ signed \in BOOLEAN
  /\ m \in 0..CodecInt
  /\ n \in (0..CodecFrac) \cup {WidthLimit}
  /\ TotalBits(signed, m, n) >= 1
  /\ cur \in CodecValues(signed, TotalBits(signed, m, n))
  /\ inputBase = 10
  /\ precision = DefaultPrecision
  /\ valueStr = DefaultValueStr
  /\ last = NoClick

\* lines 314-321 of the click handler, on cur
CodecToggle(idx) ==
  /\ idx >= 0 /\ idx < totalBits
  /\ cur' = ToggleBit(cur, totalBits, signed, idx)
  /\ last' = [op |-> "toggle", idx |-> idx, prev |-> cur]
  /\ UNCHANGED <<m, n, signed, inputBase, precision, valueStr>>

CodecNext == \E idx \in CodecIdx(totalBits) : CodecToggle(idx)

CodecSpec == CodecInit /\ [][CodecNext]_vars

Toggled == last.op = "toggle"

\* x lies in the range of the current format
InRange(x) == ZLe(RangeMin(signed, totalBits), x) /\ ZLe(x, RangeMax(signed, totalBits))

\* the unsigned number a pattern of "0"/"1" characters denotes
PatternValue(bits) ==
  BNFromDigits(Tuple([i \in 1..Len(bits) |-> DigitValue(bits[i])]), 2)

\* C1: encoding an in-range scaled value to its totalBits-wide pattern and
\* decoding the pattern (the unsigned value u, minus 2^totalBits when signed
\* and the top bit is 1) gives the value back, and the pattern has exactly
\* totalBits bits.
C1_RoundTrip ==
  InRange(cur) =>
    \A bits \in {BitPattern(cur, totalBits, signed)} :
      /\ Len(bits) = totalBits
      /\ \A i \in 1..Len(bits) : bits[i] \in {"0", "1"}
      /\ \A u \in {PatternValue(bits)} : FromTwos(u, totalBits, signed) = cur

\* a negative value of a wide signed format has been encoded
C1_Witness ==
  /\ signed /\ totalBits > ExhaustBits
  /\ cur.neg /\ InRange(cur)
  /\ BitPattern(cur, totalBits, signed)[1] = "1"

\* C2: toggling the same bit a second time gives the value back.
C2_ToggleTwice ==
  Toggled => ToggleBit(cur, totalBits, signed, last.idx) = last.prev

\* a toggle of a bit other than the top one has happened in a signed format
C2_Witness ==
  /\ Toggled /\ signed /\ last.idx > 0 /\ cur # last.prev /\ last.prev.neg

\* C3: a toggle of an in-range value yields an in-range value with no
\* saturation step, and in a signed format toggling the top bit of a
\* non-negative x yields x - 2^(totalBits-1).
C3_ToggleInRange ==
  Toggled =>
    /\ InRange(cur)
    /\ (signed /\ last.idx = 0 /\ ~last.prev.neg)
         => cur = ZSub(last.prev, ZNat(BNPow2(totalBits - 1)))

\* the sign bit of a positive value has been toggled
C3_Witness ==
  /\ Toggled /\ signed /\ last.idx = 0
  /\ ~last.prev.neg /\ last.prev.mag # BNZero /\ cur.neg

(***************************************************************************)
(* Properties of the conversion, on the App's states                       *)
(***************************************************************************)
\* the unsaturated rounding result of a parsed text
CandidateOf(r) == RoundScaled(r.negative, r.rationalNum, r.rationalDen, n)

\* the text stage and the unsaturated rounding result of the current state
Rational == ParseRational(valueStr, inputBase)
Candidate == CandidateOf(Rational)

\* the range as the specification states it
SpecMin == IF signed THEN ZNeg(ZNat(BNPow2(totalBits - 1))) ELSE ZFromInt(0)
SpecMax ==
  IF signed THEN ZSub(ZNat(BNPow2(totalBits - 1)), ZFromInt(1))
  ELSE ZSub(ZNat(BNPow2(totalBits)), ZFromInt(1))

\* C4: for a valid format and a parsed value, the result is max with
\* overflow when the rounded candidate exceeds max, min with overflow when
\* it is below min, and the candidate with no overflow otherwise; so the
\* returned scaled value lies in [min, max].
C4_Saturation ==
  \A r \in {Rational} :
    (totalBits >= 1 /\ ~HasErr(r)) =>
      \A c \in {CandidateOf(r)}, lo \in {SpecMin}, hi \in {SpecMax}, res \in {Parsed} :
        /\ DOMAIN res = {"scaled", "overflow"}
        /\ ZLt(hi, c) => res = [scaled |-> hi, overflow |-> TRUE]
        /\ ZLt(c, lo) => res = [scaled |-> lo, overflow |-> TRUE]
        /\ (ZLe(lo, c) /\ ZLe(c, hi)) => res = [scaled |-> c, overflow |-> FALSE]
        /\ ZLe(lo, res.scaled) /\ ZLe(res.scaled, hi)

\* a negative value below the range of a signed format has been saturated
C4_Witness ==
  /\ totalBits >= 1 /\ signed
  /\ \E res \in {Parsed} :
       /\ ~HasErr(res)
       /\ res.overflow /\ res.scaled = SpecMin
       /\ \E c \in {Candidate} : ZLt(c, SpecMin)

\* C5: with p/q the parsed magnitude times 2^n, the unsaturated result has
\* the magnitude k = floor(p/q), plus one exactly when 2*(p mod q) >= q,
\* that is 2p - q < 2kq <= 2p + q, and the sign of the input; 0.75 at n = 1
\* gives 2 and -0.75 gives -2.
C5_RoundHalfAway ==
  \A r \in {Rational} :
    ~HasErr(r) =>
      \A c \in {CandidateOf(r)}, P \in {BNMul(r.rationalNum, BNPow2(n))} :
        \A kQ2 \in {BNMulSmall(BNMul(c.mag, r.rationalDen), 2)},
           P2 \in {BNMulSmall(P, 2)},
           qr \in {BNDivMod(P, r.rationalDen)} :
          /\ BNLt(P2, BNAdd(kQ2, r.rationalDen))
          /\ BNLe(kQ2, BNAdd(P2, r.rationalDen))
          /\ c.mag = (IF BNLe(r.rationalDen, BNMulSmall(qr.rem, 2))
                      THEN BNAdd(qr.quot, BNOne)
                      ELSE qr.quot)
          /\ c.neg = (r.negative /\ c.mag # BNZero)
          /\ (inputBase = 10 /\ n = 1 /\ valueStr = <<"0", ".", "7", "5">>)
               => c = ZFromInt(2)
          /\ (inputBase = 10 /\ n = 1 /\ valueStr = <<"-", "0", ".", "7", "5">>)
               => c = ZFromInt(-2)

\* a negative value exactly halfway between two steps has been rounded
C5_Witness ==
  /\ inputBase = 10 /\ n = 1 /\ valueStr = <<"-", "0", ".", "7", "5">>
  /\ \E r \in {Rational} :
       /\ ~HasErr(r)
       /\ BNMulSmall(BNMod(BNMul(r.rationalNum, BNPow2(n)), r.rationalDen), 2)
            = r.rationalDen
       /\ CandidateOf(r) = ZFromInt(-2)

\* the conversion of the text the latest click was applied to, and the
\* value the click's toggle computed from it
BeforeClick == parseInputToScaled(last.prev, inputBase, signed, m, n)
ClickToggled(before) == ToggleBit(before.scaled, totalBits, signed, last.idx)

\* the positions at which two patterns of equal length differ
DiffPositions(a, b) == {i \in 1..Len(a) : a[i] # b[i]}

\* C6: with input base 10, a click writes decimal text whose conversion is
\* exactly the toggled value with no overflow: the pattern shown after the
\* click differs from the one before it in exactly the clicked bit.
C6_ClickRoundTrip ==
  (Clicked /\ inputBase = 10) =>
    \A before \in {BeforeClick}, after \in {Parsed} :
      /\ ~HasErr(after)
      /\ \A toggled \in {ClickToggled(before)} : after.scaled = toggled
      /\ after.overflow = FALSE
      /\ \A was \in {BitPattern(before.scaled, totalBits, signed)},
            now \in {BitPattern(after.scaled, totalBits, signed)} :
           DiffPositions(was, now) = {last.idx + 1}

\* C7: in every input base, a click leaves the text field and the bit view
\* consistent: no error, and the text converts to the toggled value.
C7_ClickConsistent ==
  Clicked =>
    \A before \in {BeforeClick}, after \in {Parsed} :
      /\ ~HasErr(after)
      /\ \A toggled \in {ClickToggled(before)} : after.scaled = toggled

\* the value the digits of a decimal text denote, times 10^(number of
\* fractional digits): the text without its sign and its point, read in base 10
DecimalDigitsValue(ip, fp) ==
  BNFromDigits(Tuple([i \in 1..(Len(ip) + Len(fp)) |->
                        IF i <= Len(ip) THEN DigitValue(ip[i])
                        ELSE DigitValue(fp[i - Len(ip)])]),
               10)

IsDecimalDigits(t) == \A i \in 1..Len(t) : DigitValue(t[i]) \in 0..9

BNAbsDiff(a, b) == IF BNLe(a, b) THEN BNSub(b, a) ELSE BNSub(a, b)

\* the text t shows scaled / 2^fracBits rounded to the nearest p-digit decimal
ShowsNearest(t, scaled, fracBits, p) ==
  /\ (t # <<>> /\ t[1] = "-") = scaled.neg
  /\ \A parts \in {Split(IF t # <<>> /\ t[1] = "-" THEN Tail(t) ELSE t, ".")} :
       /\ Len(parts) = 2
       /\ parts[1] # <<>> /\ IsDecimalDigits(parts[1])
       /\ Len(parts[2]) = p /\ IsDecimalDigits(parts[2])
       /\ \A shown \in {BNMul(DecimalDigitsValue(parts[1], parts[2]), BNPow2(fracBits))},
             exact \in {BNMul(scaled.mag, BNPow(BNFromInt(10), p))} :
            BNLe(BNMulSmall(BNAbsDiff(shown, exact), 2), BNPow2(fracBits))

\* C8: for n > 0 and a precision p > 0, the decimal text is the sign, the
\* integer part, a point and exactly p fractional digits, and denotes the
\* nearest p-digit decimal of scaled / 2^n.
C8_DecimalNearest ==
  \A res \in {Parsed} :
    (~HasErr(res) /\ n > 0) =>
      \A p \in 1..PrecisionLimit :
        \A t \in {scaledToDecimalString(res.scaled, n, p)} :
          ShowsNearest(t, res.scaled, n, p)

\* the text is empty once trimmed and stripped of its separators
EmptyInput == rmall(Trim(valueStr), "_") = <<>>

\* C9: in every input base, an empty text (also one empty after trimming
\* and removing the separators) converts to an error and no number.
C9_EmptyIsError ==
  (totalBits >= 1 /\ EmptyInput) => DOMAIN Parsed = {"err"}

\* the digits of each base
ValidDigits(base) ==
  IF base = 2 THEN {"0", "1"}
  ELSE IF base = 10 THEN {"0", "1", "2", "3", "4", "5", "6", "7", "8", "9"}
  ELSE {"0", "1", "2", "3", "4", "5", "6", "7", "8", "9",
        "a", "b", "c", "d", "e", "f", "A", "B", "C", "D", "E", "F"}

\* the text, trimmed and without separators, after its one leading sign
AfterSign(t) == IF t # <<>> /\ t[1] \in {"+", "-"} THEN Tail(t) ELSE t
Body(s) == AfterSign(rmall(Trim(s), "_"))

RadixPointsIn(b) == {i \in 1..Len(b) : b[i] = "."}
StrayCharsIn(b, base) == {i \in 1..Len(b) : b[i] # "." /\ b[i] \notin ValidDigits(base)}

RadixPoints(s) == RadixPointsIn(Body(s))
StrayChars(s, base) == StrayCharsIn(Body(s), base)

Malformed(s, base) == Cardinality(RadixPoints(s)) > 1 \/ StrayChars(s, base) # {}

\* C10: in every input base, a text with more than one radix point, or with
\* a character that is no digit of the base (apart from one leading sign,
\* one point and the separators), converts to an error with no scaled value
\* and no overflow flag.
C10_MalformedIsError ==
  Malformed(valueStr, inputBase) => DOMAIN Parsed = {"err"}

\* a text with two radix points and valid digits has been refused in base 16
C10_Witness ==
  /\ inputBase = 16 /\ totalBits >= 1
  /\ Cardinality(RadixPoints(valueStr)) > 1 /\ StrayChars(valueStr, 16) = {}
  /\ err

(***************************************************************************)
(* What the App shows.  The four output strings are computed from the      *)
(* conversion result res (its scaled value and its err) and the format;    *)
(* with an error each of them is the placeholder.                          *)
(***************************************************************************)
Placeholder == <<"-">>

\* plain.replace(/(.{4})/g, "$1 ").trim(): a space after every four characters
Group4(plain) ==
  Trim(Tuple([i \in 1..(Len(plain) + Len(plain) \div 4) |->
                IF i % 5 = 0 THEN " " ELSE plain[i - i \div 5]]))

binWithPoint(res) ==
  IF HasErr(res) THEN Placeholder
  ELSE binaryWithPointFromScaled(res.scaled, totalBits, n, signed)

hexTwos(res) ==
  IF HasErr(res) THEN Placeholder ELSE hexFromScaled(res.scaled, totalBits, signed)

decStr(res) ==
  IF HasErr(res) THEN Placeholder ELSE scaledToDecimalString(res.scaled, n, precision)

GroupedIf(group4, plain) == IF group4 THEN Group4(plain) ELSE plain

twosPattern(res, group4) ==
  IF HasErr(res) THEN Placeholder
  ELSE GroupedIf(group4, bigintToBinary(Twos(res.scaled, totalBits, signed), totalBits))

\* the widths handed to the conversion directly are -ProbeWidth..ProbeWidth
ProbeWidth == 1
ProbeWidths == (-ProbeWidth)..ProbeWidth

\* C11: when totalBits <= 0, or m or n is negative, the conversion of every
\* text is an error and nothing else (no scaled value, no overflow flag),
\* and the four output strings of the App are the placeholder "-".
C11_InvalidWidths ==
  /\ totalBits <= 0 =>
       \A res \in {Parsed} :
         /\ DOMAIN res = {"err"}
         /\ binWithPoint(res) = Placeholder
         /\ hexTwos(res) = Placeholder
         /\ decStr(res) = Placeholder
         /\ \A group4 \in BOOLEAN : twosPattern(res, group4) = Placeholder
  /\ \A intBits \in ProbeWidths, fracBits \in ProbeWidths :
       (TotalBits(signed, intBits, fracBits) <= 0 \/ intBits < 0 \/ fracBits < 0)
         => DOMAIN parseInputToScaled(valueStr, inputBase, signed, intBits, fracBits)
              = {"err"}

\* a well-formed text has been refused in the unsigned format of no bits
C11_Witness ==
  /\ ~signed /\ m = 0 /\ n = 0 /\ totalBits = 0
  /\ inputBase = 10 /\ valueStr = <<"5">>
  /\ Parsed = [err |-> "Invalid bit widths."]
  /\ decStr(Parsed) = Placeholder

(***************************************************************************)
(* The conversion on its own: the App with any format of up to ConvInt     *)
(* integer and ConvFrac fractional bits, with or without the sign bit, and *)
(* no clicks.  The text, the input base and the precision are set in any   *)
(* order.                                                                  *)
(***************************************************************************)
ConvInt == 4    \* ConvertSpec: m in 0..ConvInt
ConvFrac == 3   \* ConvertSpec: n in 0..ConvFrac

ConvertInit ==
  /\ m \in 0..ConvInt
  /\ n \in 0..ConvFrac
  /\ signed \in BOOLEAN
  /\ inputBase = 10
  /\ precision = DefaultPrecision
  /\ valueStr = DefaultValueStr
  /\ last = NoClick
  /\ cur = ZNat(BNZero)

\* the texts typed: those of the App's runs and integers written with a
\* plus sign, with leading zeros, and as minus zero
ConvertInputs ==
  TypedInputs \cup {<<"+", "5">>, <<"0", "0", "7">>, <<"-", "0">>, <<"-", "7">>, <<"1", "2">>}

ConvertNext ==
  \/ \E b \in InputBases : SetInputBase(b)
  \/ \E v \in {-1, DefaultPrecision, PrecisionLimit + 1} : SetPrecision(v)
  \/ \E s \in ConvertInputs : SetValueStr(s)

ConvertSpec == ConvertInit /\ [][ConvertNext]_vars

\* the state of scenario A: Q1.3 signed, "-0.75" in base 10
ScenarioA ==
  /\ signed /\ m = 1 /\ n = 3
  /\ inputBase = 10 /\ valueStr = <<"-", "0", ".", "7", "5">>

\* the raw pattern of res with a point n positions from its right end, a "0"
\* standing for an empty integer part
PatternWithPoint(res) ==
  IF n = 0 THEN BitPattern(res.scaled, totalBits, signed)
  ELSE (IF totalBits = n THEN <<"0">>
        ELSE SubSeq(BitPattern(res.scaled, totalBits, signed), 1, totalBits - n))
       \o <<".">>
       \o SubSeq(BitPattern(res.scaled, totalBits, signed), totalBits - n + 1, totalBits)

\* the values of scenario A other than its binary-with-point text
ScenarioAValues(res) ==
  /\ ~HasErr(res)
  /\ res = [scaled |-> ZFromInt(-6), overflow |-> FALSE]
  /\ BitPattern(res.scaled, totalBits, signed) = <<"1", "1", "0", "1", "0">>
  /\ hexTwos(res) = <<"1", "A">>

\* C12 as stated: in scenario A the conversion yields scaled = -6 with no
\* overflow, the raw pattern 11010, the binary-with-point text "1.1010" and
\* the hex text "1A"; in general the binary-with-point text is the raw
\* pattern with a radix point n positions from the right.
C12_ScenarioAsStated ==
  \A res \in {Parsed} :
    /\ ScenarioA =>
         /\ ScenarioAValues(res)
         /\ binWithPoint(res) = <<"1", ".", "1", "0", "1", "0">>
    /\ ~HasErr(res) => binWithPoint(res) = PatternWithPoint(res)

\* C12, amended: as stated, with the binary-with-point text "11.010" (the
\* point three positions from the right of 11010).
C12_Scenario ==
  \A res \in {Parsed} :
    /\ ScenarioA =>
         /\ ScenarioAValues(res)
         /\ binWithPoint(res) = <<"1", "1", ".", "0", "1", "0">>
    /\ ~HasErr(res) => binWithPoint(res) = PatternWithPoint(res)

\* scenario A has been converted and shown
C12_Witness ==
  /\ ScenarioA
  /\ Parsed = [scaled |-> ZFromInt(-6), overflow |-> FALSE]
  /\ binWithPoint(Parsed) = <<"1", "1", ".", "0", "1", "0">>

\* the characters 0-9 and A-F
UpperHexDigits == {UpperDigits[d] : d \in 1..16}

\* the unsigned number a text of hexadecimal digits denotes
HexValue(h) == BNFromDigits(Tuple([i \in 1..Len(h) |-> DigitValue(h[i])]), 16)

\* the raw pattern of x read as an unsigned integer, as the claim states it:
\* x, plus 2^totalBits for a negative x
UnsignedOf(x) == IF x.neg THEN BNSub(BNPow2(totalBits), x.mag) ELSE x.mag

\* C13: for every format and every in-range scaled value, hexFromScaled
\* returns exactly ceil(totalBits/4) uppercase hexadecimal digits and no
\* radix point, and their value is the raw totalBits-wide pattern read as
\* an unsigned integer (scaled + 2^totalBits for a negative value).
C13_HexOfPattern ==
  InRange(cur) =>
    \A h \in {hexFromScaled(cur, totalBits, signed)} :
      /\ Len(h) * 4 >= totalBits /\ (Len(h) - 1) * 4 < totalBits
      /\ \A i \in 1..Len(h) : h[i] \in UpperHexDigits
      /\ \A v \in {HexValue(h)} :
           /\ v = UnsignedOf(cur)
           /\ v = PatternValue(BitPattern(cur, totalBits, signed))

\* a negative value of a wide signed format has been rendered, with letters
C13_Witness ==
  /\ signed /\ totalBits > ExhaustBits /\ totalBits % 4 # 0
  /\ cur.neg /\ InRange(cur)
  /\ "F" \in {hexFromScaled(cur, totalBits, signed)[i] :
                i \in 1..Len(hexFromScaled(cur, totalBits, signed))}

\* the text t is the sign of scaled and the decimal digits of |scaled| >> fracBits
ShowsInteger(t, scaled, fracBits) ==
  /\ t # <<>>
  /\ (t[1] = "-") = scaled.neg
  /\ \A body \in {IF t[1] = "-" THEN Tail(t) ELSE t} :
       /\ body # <<>> /\ IsDecimalDigits(body)
       /\ Len(body) > 1 => body[1] # "0"
       /\ \A v \in {DecimalDigitsValue(body, <<>>)} :
            /\ BNLe(BNShl(v, fracBits), scaled.mag)
            /\ BNLt(scaled.mag, BNShl(BNAdd(v, BNOne), fracBits))

\* a base-10 integer text: an optional sign and one or more digits
IntegerText(s) ==
  /\ AfterSign(s) # <<>>
  /\ IsDecimalDigits(AfterSign(s))

\* the digits ds without their leading zeros (one digit at least)
NoLeadingZeros(ds) ==
  SubSeq(ds, CHOOSE k \in 1..Len(ds) :
               (k = Len(ds) \/ ds[k] # "0") /\ \A j \in 1..(k - 1) : ds[j] = "0",
         Len(ds))

\* the integer text s in canonical form: no plus sign, no leading zeros, no
\* minus zero
CanonicalInteger(s) ==
  (IF s[1] = "-" /\ NoLeadingZeros(AfterSign(s)) # <<"0">> THEN <<"-">> ELSE <<>>)
    \o NoLeadingZeros(AfterSign(s))

\* the first half of C14: with n = 0 or precision 0 the decimal text shown is
\* the sign and the integer part, with no point and no fractional digits
IntegerRendering(res) ==
  (n = 0 \/ precision = 0) => ShowsInteger(decStr(res), res.scaled, n)

\* an in-range base-10 integer text has been converted with n = 0
IntegerConverted(res) ==
  /\ n = 0 /\ inputBase = 10 /\ IntegerText(valueStr)
  /\ ~HasErr(res) /\ ~res.overflow

\* C14 as stated: when n = 0 or the precision is 0, the decimal rendering is
\* the sign followed by the integer part |scaled| >> n, with no radix point
\* and no fractional digits; for n = 0, a base-10 integer text in range is
\* rendered, at any precision, as that same text.
C14_IntegerAsStated ==
  \A res \in {Parsed} :
    /\ ~HasErr(res) => IntegerRendering(res)
    /\ IntegerConverted(res) =>
         \A p \in 0..PrecisionLimit : scaledToDecimalString(res.scaled, n, p) = valueStr

\* C14, amended: as stated, the text rendered for n = 0 being the integer
\* text in canonical form (without a plus sign, leading zeros or the sign of
\* minus zero), which is the same text when the text is canonical.
C14_Integer ==
  \A res \in {Parsed} :
    /\ ~HasErr(res) => IntegerRendering(res)
    /\ IntegerConverted(res) =>
         \A p \in 0..PrecisionLimit :
           /\ scaledToDecimalString(res.scaled, n, p) = CanonicalInteger(valueStr)
           /\ CanonicalInteger(valueStr) = valueStr
                => scaledToDecimalString(res.scaled, n, p) = valueStr

\* "5" has been converted in the unsigned format m = 4, n = 0 and shown
C14_Witness ==
  /\ ~signed /\ m = 4 /\ n = 0 /\ inputBase = 10 /\ valueStr = <<"5">>
  /\ Parsed = [scaled |-> ZFromInt(5), overflow |-> FALSE]
  /\ decStr(Parsed) = <<"5">>

(***************************************************************************)
(* The floating-point variant of the engine, quantizeToQ.  Its argument is *)
(* a JavaScript number; the numbers considered are the multiples of        *)
(* 2^-(n+1) in formats of a few bits, on which double arithmetic is exact, *)
(* so val is given as the integer `halves` with val = halves / 2^(n+1),    *)
(* and min, max and sat are held in the same unit.  Of the record          *)
(* returned, bits is modelled.                                             *)
(***************************************************************************)
\* clamp of the second variant: Math.min(hi, Math.max(lo, v))
clampMinMax(v, lo, hi) == Min2(hi, Max2(lo, v))

\* Math.round(halves / 2): the nearest integer, a tie going towards +Infinity
MathRoundOfHalves(halves) == (halves + 1) \div 2

\* the loop bits[total-1-i] = (payload >> i) & 1 for i < width, and bits[0]
\* set to `top` in a signed format; bits[j - 1] is entry j
FillBits(payload, total, width, isSigned, top) ==
  Tuple([j \in 1..total |->
           IF total - j < width THEN (payload \div (2 ^ (total - j))) % 2
           ELSE IF isSigned /\ j = 1 THEN top
           ELSE 0])

\* the bit fill of quantizeToQ for the rounded qint
BitsOfQint(qint, total, width, isSigned) ==
  IF isSigned /\ qint < 0
  THEN FillBits((2 ^ width) + qint, total, width, isSigned, 1)
  ELSE FillBits(qint, total, width, isSigned, 0)

\* quantizeToQ(val, m, n, signed) for val = halves / 2^(n+1): min and max in
\* halves are 2 * -(2^(m+n)) (0 when unsigned) and 2 * (2^(m+n) - 1)
quantizeToQ(halves, intBits, fracBits, isSigned) ==
  [bits |->
     BitsOfQint(MathRoundOfHalves(
                  clampMinMax(halves,
                              IF isSigned THEN 2 * (-(2 ^ (intBits + fracBits))) ELSE 0,
                              2 * ((2 ^ (intBits + fracBits)) - 1))),
                (IF isSigned THEN 1 ELSE 0) + intBits + fracBits,
                intBits + fracBits, isSigned),
   total |-> (IF isSigned THEN 1 ELSE 0) + intBits + fracBits]

\* bounds of QuantizeSpec
QuantInt == 2       \* m in 0..QuantInt
QuantFrac == 2      \* n in 0..QuantFrac
QuantOutside == 4   \* values up to QuantOutside half steps beyond the range

\* the values handed to quantizeToQ in the current format, in halves
QuantizeInputs ==
  ((IF signed THEN 2 * (-(2 ^ (m + n))) ELSE 0) - QuantOutside)
    ..(2 * ((2 ^ (m + n)) - 1) + QuantOutside)

QuantizeInit ==
  /\ m \in 0..QuantInt
  /\ n \in 0..QuantFrac
  /\ signed \in BOOLEAN
  /\ TotalBits(signed, m, n) >= 1
  /\ inputBase = 2
  /\ precision = DefaultPrecision
  /\ valueStr = DefaultValueStr
  /\ last = NoClick
  /\ cur = ZNat(BNZero)

\* quantizeToQ applied to the value halves / 2^(n+1); last keeps the value
\* and the bits returned
Quantize(halves) ==
  /\ last' = [op |-> "quantize", idx |-> halves,
              prev |-> quantizeToQ(halves, m, n, signed).bits]
  /\ UNCHANGED <<m, n, signed, inputBase, precision, valueStr, cur>>

QuantizeNext == \E halves \in QuantizeInputs : Quantize(halves)

QuantizeSpec == QuantizeInit /\ [][QuantizeNext]_vars

Quantized == last.op = "quantize"

\* the number halves / 2^(fracBits+1) written in base 2: a sign, the integer
\* digits, a point and fracBits + 1 fractional digits
BinaryTextOfHalves(halves, fracBits) ==
  (IF halves < 0 THEN <<"-">> ELSE <<>>)
    \o PointAt(PadStart(ToStringRadix(BNFromInt(IF halves < 0 THEN -halves ELSE halves), 2),
                        fracBits + 2, "0"),
               Max2(Len(ToStringRadix(BNFromInt(IF halves < 0 THEN -halves ELSE halves), 2)),
                    fracBits + 2) - (fracBits + 1))

\* the pattern of the exact variant for the text t in base `base`
ExactPattern(t, base) ==
  BitPattern(parseInputToScaled(t, base, signed, m, n).scaled, totalBits, signed)

\* the bits of quantizeToQ as a text of "0" and "1"
BitsText(bits) == Tuple([i \in 1..Len(bits) |-> LowerDigits[bits[i] + 1]])

\* C15: for every format of a few bits and every value that is a multiple
\* of 2^-(n+1), inside or outside the range, quantizeToQ produces the same
\* totalBits-wide pattern as parseInputToScaled followed by the
\* two's-complement encoding.
C15_VariantsAgree ==
  Quantized =>
    \A t \in {BinaryTextOfHalves(last.idx, n)} :
      BitsText(last.prev) = ExactPattern(t, 2)

====
